---- MODULE Spec2Model ----
(***************************************************************************)
(* State-machine model of experiments/unmanaged/manager.py: the online     *)
(* individuals (OnlineIndividual), the population manager (Population) and *)
(* the life loop (run).                                                    *)
(*                                                                         *)
(* Units.  Lengths are integers in tenths of a metre (MATE_DISTANCE 0.6 is *)
(* 6), times and ages are integers in seconds, and a multiplier is a       *)
(* positive rational <<num, den>>.  A Python None is the empty sequence    *)
(* and a present value v is <<v>>.                                         *)
(***************************************************************************)
EXTENDS Integers, Sequences, FiniteSets, TLC

(***************************************************************************)
(* Program constants (manager.py lines 25-38).                             *)
(***************************************************************************)
MATURE_AGE == 30
MATE_DISTANCE == 6
MATING_COOLDOWN == 10
COUPLE_MATING_LIMIT == 5
INDIVIDUAL_MAX_AGE == 120
Z_SPAWN_DISTANCE == 5
LIMIT_X == 40
LIMIT_Y == 40
\* Population.__init__: _recent_children_delta_time (30.0) and the sentinel
\* of _recent_children_start_time (-1.0)
RECENT_CHILDREN_DELTA_TIME == 30
NOT_STARTED == -1
\* adjust_mating_multiplier: fewer children than 3 widen the range, more
\* than 10 narrow it
FEW_CHILDREN == 3
MANY_CHILDREN == 10

(***************************************************************************)
(* Bounds of the model.                                                    *)
(***************************************************************************)
\* simulated time never passes MaxTime
MaxTime == 100
\* the simulator reports a new state every TimeStep seconds
TimeStep == 10
\* in the life loop the simulator's clock advances by TickStep seconds, and
\* the loop is followed until the clock shows MaxSimTime
TickStep == 20
MaxSimTime == 40
\* SEED_POPULATION_START (50), MIN_POP (20) and MAX_POP (100), scaled down
SEED_POPULATION_START == 2
MIN_POP == 1
MAX_POP == 3
\* the default n_tries of _free_random_spawn_pos (100), scaled down
N_TRIES == 2
\* ids the life loop may hand out
MaxId == 4
\* the three-individual harness is followed until a handle shows MaxTrioTime
MaxTrioTime == 50
\* children a caller of adjust_mating_multiplier may have put in the buffer
MaxChildren == 11
\* n_tries a caller of _free_random_spawn_pos may pass, and robots it faces
MaxTries == 3
MaxPlaced == 2

None == << >>
Some(v) == << v >>

\* Positions the simulator may report in the mate harness: at planar
\* distances 5, 7 and (between the last two) the square root of 32; the
\* second is far in z.
Points == { <<0, 0, 0>>, <<3, 4, 9>>, <<7, 0, 0>> }

\* Positions a robot may walk to in the life loop: both near the spawn
\* candidate <<0, 0>>, one closer to it than DEFAULT_DISTANCE and one exactly
\* at it.
WalkPoints == { <<3, 4, 9>>, <<7, 0, 0>> }

\* Candidates random_spawn_pos may draw: inside [-LIMIT_X, LIMIT_X] x
\* [-LIMIT_Y, LIMIT_Y] at the spawn height.
SpawnPoints ==
    { << -20, 0, Z_SPAWN_DISTANCE >>, << 0, 0, Z_SPAWN_DISTANCE >>,
      << 20, 0, Z_SPAWN_DISTANCE >> }

\* Values of _mating_increase_rate: the program's 1.0, and 3/2
Rates == { << 1, 1 >>, << 3, 2 >> }

\* Multipliers handed to mate: 1 and 3/2.
Multipliers == { <<1, 1>>, <<3, 2>> }

VARIABLES
    manager,      \* individual id -> the state of its RobotManager handle
    call,         \* the last call of OnlineIndividual.mate and its outcome
    hist,         \* history of the matings: what the calls of mate have done
    robots,                      \* Population._robots: ids in list order
    robot_id_counter,            \* Population._robot_id_counter
    mating_multiplier,           \* Population._mating_multiplier
    mating_increase_rate,        \* Population._mating_increase_rate
    recent_children,             \* Population._recent_children
    recent_children_start_time,  \* Population._recent_children_start_time
    pc,           \* where run() and the season it is in stand
    loop,         \* the locals of the season in progress
    sim_time,     \* the simulator's clock, connection.age()
    paused,       \* the simulator is paused
    unregistered, \* handles given to connection.unregister_robot
    exported,     \* life records written: << id, dead flag >>
    placement     \* the last call of _free_random_spawn_pos and its outcome

matevars == << manager, call, hist >>
popvars == << robots, robot_id_counter, mating_multiplier, mating_increase_rate,
              recent_children, recent_children_start_time >>
runvars == << pc, loop, sim_time, paused, unregistered, exported >>
vars == << matevars, popvars, runvars, placement >>

(***************************************************************************)
(* OnlineIndividual                                                        *)
(***************************************************************************)

\* __init__(self, genotype, max_age): two positional arguments are required;
\* any other number of arguments is a TypeError.
OnlineIndividual(args) ==
    IF Len(args) = 2
    THEN [ kind |-> "individual", genotype |-> args[1], manager |-> None,
           max_age |-> Some(args[2]) ]
    ELSE [ kind |-> "TypeError" ]

\* A fresh handle as the simulator returns it on insertion.
NewManager(name, pos, time) ==
    [ name |-> name, age |-> 0, last_update |-> time, last_position |-> pos,
      last_mate |-> None, mated_with |-> << >>, dead |-> FALSE ]

\* dict.get(key, default)
DictGet(d, key, default) == IF key \in DOMAIN d THEN d[key] ELSE default

\* Squared norm of the difference of two positions; planar zeroes z first.
DistanceSq(p, q, planar) ==
    LET dx == p[1] - q[1]
        dy == p[2] - q[2]
        dz == IF planar THEN 0 ELSE p[3] - q[3]
    IN  dx * dx + dy * dy + dz * dz

\* self.distance_to(other) > limit * mult, on squares (all terms are >= 0)
DistanceExceeds(p, q, limit, mult) ==
    DistanceSq(p, q, TRUE) * mult[2] * mult[2] > limit * limit * mult[1] * mult[1]

mature(m) == m.age > MATURE_AGE

\* Mutant of wants_to_mate: the quota gate is missing.
wants_to_mate_NoQuota(self, other, mult) ==
    IF ~ mature(self) THEN FALSE
    ELSE IF DistanceExceeds(self.last_position, other.last_position,
                            MATE_DISTANCE, mult) THEN FALSE
    ELSE IF self.last_mate # None
            /\ self.last_update - self.last_mate[1] < MATING_COOLDOWN THEN FALSE
    ELSE TRUE

\* Mutant of wants_to_mate: the quota gate compares with the limit plus one.
wants_to_mate_QuotaOffByOne(self, other, mult) ==
    IF ~ mature(self) THEN FALSE
    ELSE IF DistanceExceeds(self.last_position, other.last_position,
                            MATE_DISTANCE, mult) THEN FALSE
    ELSE IF self.last_mate # None
            /\ self.last_update - self.last_mate[1] < MATING_COOLDOWN THEN FALSE
    ELSE IF DictGet(self.mated_with, other.name, 0) > COUPLE_MATING_LIMIT + 1 THEN FALSE
    ELSE TRUE

\* self._wants_to_mate(other, mating_multiplier), on the two handles
wants_to_mate(self, other, mult) ==
    IF ~ mature(self) THEN FALSE
    ELSE IF DistanceExceeds(self.last_position, other.last_position,
                            MATE_DISTANCE, mult) THEN FALSE
    ELSE IF self.last_mate # None
            /\ self.last_update - self.last_mate[1] < MATING_COOLDOWN THEN FALSE
    ELSE IF DictGet(self.mated_with, other.name, 0) > COUPLE_MATING_LIMIT THEN FALSE
    ELSE TRUE

\* Mutant of SaveMating: the time of the mating is not stored.
SaveMating_NoLastMate(self, other) ==
    [ self EXCEPT
        !.mated_with =
            IF other.name \in DOMAIN self.mated_with
            THEN [ self.mated_with EXCEPT ![other.name] = @ + 1 ]
            ELSE [ k \in DOMAIN self.mated_with \cup { other.name } |->
                     IF k = other.name THEN 1 ELSE self.mated_with[k] ] ]

\* The bookkeeping of a mating, on self's handle (lines 161-166)
SaveMating(self, other) ==
    [ self EXCEPT
        !.last_mate = Some(self.last_update),
        !.mated_with =
            IF other.name \in DOMAIN self.mated_with
            THEN [ self.mated_with EXCEPT ![other.name] = @ + 1 ]
            ELSE [ k \in DOMAIN self.mated_with \cup { other.name } |->
                     IF k = other.name THEN 1 ELSE self.mated_with[k] ] ]

\* Crossover of the two parents followed by mutation: a new genotype, no id.
ChildGenotype(s, o) == [ id |-> None, parents |-> << s, o >> ]

\* Mutant of mate: other is not asked whether it wants the mating.
mate_InitiatorOnly(mgr, s, o, mult) ==
    IF ~ wants_to_mate(mgr[s], mgr[o], mult)
    THEN [ manager |-> mgr, result |-> [ kind |-> "None" ] ]
    ELSE [ manager |-> [ mgr EXCEPT ![s] = SaveMating(mgr[s], mgr[o]) ],
           result  |-> OnlineIndividual(<< ChildGenotype(s, o) >>) ]

\* Mutant of mate: the mating is saved on both individuals.
mate_BothSides(mgr, s, o, mult) ==
    IF ~ ( wants_to_mate(mgr[s], mgr[o], mult)
           /\ wants_to_mate(mgr[o], mgr[s], mult) )
    THEN [ manager |-> mgr, result |-> [ kind |-> "None" ] ]
    ELSE [ manager |-> [ mgr EXCEPT ![s] = SaveMating(mgr[s], mgr[o]),
                                    ![o] = SaveMating(mgr[o], mgr[s]) ],
           result  |-> OnlineIndividual(<< ChildGenotype(s, o) >>) ]

\* Mutant of mate: the mating is saved as soon as self wants it, before
\* other is asked.
mate_SaveFirst(mgr, s, o, mult) ==
    IF ~ wants_to_mate(mgr[s], mgr[o], mult)
    THEN [ manager |-> mgr, result |-> [ kind |-> "None" ] ]
    ELSE IF ~ wants_to_mate(mgr[o], mgr[s], mult)
    THEN [ manager |-> [ mgr EXCEPT ![s] = SaveMating(mgr[s], mgr[o]) ],
           result  |-> [ kind |-> "None" ] ]
    ELSE [ manager |-> [ mgr EXCEPT ![s] = SaveMating(mgr[s], mgr[o]) ],
           result  |-> OnlineIndividual(<< ChildGenotype(s, o) >>) ]

\* self.mate(other, mult) in the handles mgr: the handles after the call and
\* what the call gave (None, an individual, or the exception raised).
mate(mgr, s, o, mult) ==
    IF ~ ( wants_to_mate(mgr[s], mgr[o], mult)
           /\ wants_to_mate(mgr[o], mgr[s], mult) )
    THEN [ manager |-> mgr, result |-> [ kind |-> "None" ] ]
    ELSE [ manager |-> [ mgr EXCEPT ![s] = SaveMating(mgr[s], mgr[o]) ],
           result  |-> OnlineIndividual(<< ChildGenotype(s, o) >>) ]

(***************************************************************************)
(* Population: the parts that are functions of their arguments             *)
(***************************************************************************)
MATING_INCREASE_RATE == << 1, 1 >>

\* The default distance of _free_random_spawn_pos: MATE_DISTANCE + 0.1
DEFAULT_DISTANCE == MATE_DISTANCE + 1

\* individual.age(): the handle's age, 0 without a handle
age(mgr, id) == IF id \in DOMAIN mgr THEN mgr[id].age ELSE 0

\* individual.mature()
individual_mature(mgr, id) == age(mgr, id) > MATURE_AGE

\* The last known positions of the live list, in list order
Positions(robs, mgr) == [ k \in 1 .. Len(robs) |-> mgr[robs[k]].last_position ]

\* Mutant of is_pos_occupied: the loop returns after the first robot.
is_pos_occupied_FirstOnly(positions, pos, distance) ==
    /\ Len(positions) >= 1
    /\ DistanceSq(positions[1], pos, TRUE) < distance * distance

\* _is_pos_occupied(pos, distance): some robot is closer than distance
\* (planar), on squares
is_pos_occupied(positions, pos, distance) ==
    \E k \in 1 .. Len(positions) :
        DistanceSq(positions[k], pos, TRUE) < distance * distance

\* Mutant of spawn_loop: the counter is compared with >= instead of >.
RECURSIVE spawn_loop_GiveUpEarly(_, _, _, _, _, _, _, _)
spawn_loop_GiveUpEarly(positions, distance, n_tries, draws, pos, i, drawn, tested) ==
    IF is_pos_occupied(positions, pos, distance)
    THEN IF i + 1 >= n_tries
         THEN [ kind |-> "NoPositionFound", drawn |-> drawn, tested |-> tested + 1 ]
         ELSE spawn_loop_GiveUpEarly(positions, distance, n_tries, draws,
                                     draws[drawn + 1], i + 1, drawn + 1, tested + 1)
    ELSE [ kind |-> "position", pos |-> pos, drawn |-> drawn, tested |-> tested + 1 ]

\* The while loop of _free_random_spawn_pos (lines 260-265).  draws[k] is
\* what the k-th call of random_spawn_pos gives; drawn and tested count the
\* calls of random_spawn_pos and of _is_pos_occupied made so far.
RECURSIVE spawn_loop(_, _, _, _, _, _, _, _)
spawn_loop(positions, distance, n_tries, draws, pos, i, drawn, tested) ==
    IF is_pos_occupied(positions, pos, distance)
    THEN IF i + 1 > n_tries
         THEN [ kind |-> "NoPositionFound", drawn |-> drawn, tested |-> tested + 1 ]
         ELSE spawn_loop(positions, distance, n_tries, draws,
                         draws[drawn + 1], i + 1, drawn + 1, tested + 1)
    ELSE [ kind |-> "position", pos |-> pos, drawn |-> drawn, tested |-> tested + 1 ]

\* _free_random_spawn_pos(distance, n_tries)
free_random_spawn_pos(positions, distance, n_tries, draws) ==
    spawn_loop(positions, distance, n_tries, draws, draws[1], 1, 1, 0)

\* The draws a call with n_tries may consume
Draws(n_tries) == [ 1 .. (IF n_tries < 1 THEN 1 ELSE n_tries) -> SpawnPoints ]

\* list.remove(x): the list without the first element equal to x
RECURSIVE ListRemove(_, _)
ListRemove(list, x) ==
    IF list = << >> THEN << >>
    ELSE IF Head(list) = x THEN Tail(list)
    ELSE << Head(list) >> \o ListRemove(Tail(list), x)

\* The for loop of death_season (lines 295-300) on the live list: k is the
\* position of the list iterator, removed the individuals given to
\* _remove_individual so far.
RECURSIVE death_loop(_, _, _, _)
death_loop(robs, mgr, k, removed) ==
    IF k > Len(robs) THEN [ robots |-> robs, removed |-> removed ]
    ELSE IF mgr[robs[k]].dead
         THEN death_loop(ListRemove(robs, robs[k]), mgr, k + 1,
                         Append(removed, robs[k]))
         ELSE death_loop(robs, mgr, k + 1, removed)

RECURSIVE GCD(_, _)
GCD(a, b) == IF b = 0 THEN a ELSE GCD(b, a % b)

\* A rational in lowest terms
Normalize(q) == LET g == GCD(q[1], q[2]) IN << q[1] \div g, q[2] \div g >>
RatMul(q, r) == Normalize(<< q[1] * r[1], q[2] * r[2] >>)
RatDiv(q, r) == Normalize(<< q[1] * r[2], q[2] * r[1] >>)

\* Mutant of adjust_mating_multiplier: the buffer is cleared only where the
\* multiplier is changed.
adjust_mating_multiplier_ClearInBranch(start, multiplier, rate, children, time) ==
    IF start < 0
    THEN [ start |-> time, multiplier |-> multiplier, children |-> children ]
    ELSE IF time - start > RECENT_CHILDREN_DELTA_TIME
    THEN [ start |-> time,
           multiplier |->
               IF Len(children) < FEW_CHILDREN THEN RatMul(multiplier, rate)
               ELSE IF Len(children) > MANY_CHILDREN THEN RatDiv(multiplier, rate)
               ELSE multiplier,
           children |->
               IF Len(children) < FEW_CHILDREN \/ Len(children) > MANY_CHILDREN
               THEN << >> ELSE children ]
    ELSE [ start |-> start, multiplier |-> multiplier, children |-> children ]

\* Mutant of adjust_mating_multiplier: the two tests include their bounds.
adjust_mating_multiplier_Inclusive(start, multiplier, rate, children, time) ==
    IF start < 0
    THEN [ start |-> time, multiplier |-> multiplier, children |-> children ]
    ELSE IF time - start > RECENT_CHILDREN_DELTA_TIME
    THEN [ start |-> time,
           multiplier |->
               IF Len(children) <= FEW_CHILDREN THEN RatMul(multiplier, rate)
               ELSE IF Len(children) >= MANY_CHILDREN THEN RatDiv(multiplier, rate)
               ELSE multiplier,
           children |-> << >> ]
    ELSE [ start |-> start, multiplier |-> multiplier, children |-> children ]

\* adjust_mating_multiplier(time) (lines 317-335) on the controller's state
adjust_mating_multiplier(start, multiplier, rate, children, time) ==
    IF start < 0
    THEN [ start |-> time, multiplier |-> multiplier, children |-> children ]
    ELSE IF time - start > RECENT_CHILDREN_DELTA_TIME
    THEN [ start |-> time,
           multiplier |->
               IF Len(children) < FEW_CHILDREN THEN RatMul(multiplier, rate)
               ELSE IF Len(children) > MANY_CHILDREN THEN RatDiv(multiplier, rate)
               ELSE multiplier,
           children |-> << >> ]
    ELSE [ start |-> start, multiplier |-> multiplier, children |-> children ]

(***************************************************************************)
(* History of the matings.  A call of mate that gets past the mutual gate  *)
(* and saves the mating is a mating, whatever the call then gives back.    *)
(*   success[<<s, o>>]  s's time at the last mating of s with o, or None   *)
(*   exceeded           the pairs <<a, b>> for which a's recorded count    *)
(*                      for b has been above COUPLE_MATING_LIMIT           *)
(*   count[<<s, o>>]    the number of matings s has initiated with o       *)
(***************************************************************************)
Pairs(S) == { pr \in S \X S : pr[1] # pr[2] }

NoHistory(S) == [ success |-> [ pr \in Pairs(S) |-> None ], exceeded |-> { },
                  count |-> [ pr \in Pairs(S) |-> 0 ] ]

Exceeded(mgr) ==
    { pr \in Pairs(DOMAIN mgr) :
        DictGet(mgr[pr[1]].mated_with, mgr[pr[2]].name, 0) > COUPLE_MATING_LIMIT }

Record(h, mgr, s, o, r) ==
    [ success  |-> IF r.result.kind = "None" THEN h.success
                   ELSE [ h.success EXCEPT ![<< s, o >>] = Some(mgr[s].last_update) ],
      exceeded |-> h.exceeded \cup Exceeded(r.manager),
      count    |-> IF r.result.kind = "None" THEN h.count
                   ELSE [ h.count EXCEPT ![<< s, o >>] = @ + 1 ] ]

(***************************************************************************)
(* The mate harness: two inserted individuals, the simulator updating      *)
(* their handles, and callers of mate.                                     *)
(***************************************************************************)
Harness == { 1, 2 }

NoCall == [ op |-> "none" ]

\* start and attempts are history: the live list at the start of the mating
\* season in progress and the calls of mate it has made.
NoLoop == [ i1 |-> 0, i2 |-> 0, target |-> 0, seeding |-> FALSE, pending |-> None,
            start |-> << >>, attempts |-> 0 ]

\* Population.__init__ (lines 212-222), but for _mating_increase_rate
NewPopulation ==
    /\ robots = << >>
    /\ robot_id_counter = 0
    /\ mating_multiplier = << 1, 1 >>
    /\ recent_children = << >>
    /\ recent_children_start_time = NOT_STARTED

\* Population.__init__ (lines 212-222)
InitPopulation ==
    /\ NewPopulation
    /\ mating_increase_rate = MATING_INCREASE_RATE

\* No life loop is running: the harnesses call the methods themselves.
NoRun ==
    /\ pc = "harness"
    /\ loop = NoLoop
    /\ sim_time = 0
    /\ paused = FALSE
    /\ unregistered = { }
    /\ exported = { }

InitMate ==
    /\ manager = [ a \in Harness |-> NewManager(a, <<0, 0, 0>>, 0) ]
    /\ call = NoCall
    /\ hist = NoHistory(Harness)
    /\ InitPopulation
    /\ NoRun
    /\ placement = NoCall

\* The simulator reports a later time and a position for a's robot.
SimUpdate(a) ==
    \E p \in Points :
        /\ manager[a].last_update + TimeStep <= MaxTime
        /\ manager' = [ manager EXCEPT
                          ![a].last_update = @ + TimeStep,
                          ![a].age = @ + TimeStep,
                          ![a].last_position = p ]
        /\ call' = NoCall
        /\ UNCHANGED << hist, popvars, runvars, placement >>

\* A caller runs s.mate(o, mult).
MateCall(s, o) ==
    \E mult \in Multipliers :
        LET r == mate(manager, s, o, mult)
        IN  /\ manager' = r.manager
            /\ hist' = Record(hist, manager, s, o, r)
            /\ call' = [ op |-> "mate", self |-> s, other |-> o, mult |-> mult,
                         before |-> manager, hist_before |-> hist,
                         result |-> r.result ]
            /\ UNCHANGED << popvars, runvars, placement >>

NextMate ==
    \/ \E a \in Harness : SimUpdate(a)
    \/ \E s \in Harness : \E o \in Harness \ { s } : MateCall(s, o)

SpecMate == InitMate /\ [][NextMate]_vars

(***************************************************************************)
(* The same harness with three inserted individuals, followed for a        *)
(* shorter time: calls of mate with a third individual around.             *)
(***************************************************************************)
Trio == { 1, 2, 3 }

\* Positions the simulator may report in this harness: within MATE_DISTANCE
\* of each other, or beyond it.
TrioPoints == { <<0, 0, 0>>, <<7, 0, 0>> }

InitTrio ==
    /\ manager = [ a \in Trio |-> NewManager(a, <<0, 0, 0>>, 0) ]
    /\ call = NoCall
    /\ hist = NoHistory(Trio)
    /\ InitPopulation
    /\ NoRun
    /\ placement = NoCall

\* The simulator reports a later time and a position for a's robot.
TrioUpdate(a) ==
    \E p \in TrioPoints :
        /\ manager[a].last_update + TimeStep <= MaxTrioTime
        /\ manager' = [ manager EXCEPT
                          ![a].last_update = @ + TimeStep,
                          ![a].age = @ + TimeStep,
                          ![a].last_position = p ]
        /\ call' = NoCall
        /\ UNCHANGED << hist, popvars, runvars, placement >>

NextTrio ==
    \/ \E a \in Trio : TrioUpdate(a)
    \/ \E s \in Trio : \E o \in Trio \ { s } : MateCall(s, o)

SpecTrio == InitTrio /\ [][NextTrio]_vars

(***************************************************************************)
(* run(): seeding, then the life loop of death, mating and immigration     *)
(* seasons, the adjustment of the mating multiplier and a sleep.  The      *)
(* simulator acts only while run() is suspended in an await that lets its  *)
(* messages through: the insertion of a robot and the sleep.               *)
(*   pc  "seed"          before seed_initial_population                    *)
(*       "immigration"   at the while test of immigration_season           *)
(*       "await_insert"  awaiting connection.insert_robot                  *)
(*       "seeded"        immigration_season has returned to the seeding    *)
(*       "death"         before death_season                               *)
(*       "mating_start"  before mating_season                              *)
(*       "mating"        in the for loops of mating_season                 *)
(*       "adjust"        before adjust_mating_multiplier                   *)
(*       "sleep"         in asyncio.sleep                                  *)
(*       "crashed"       an exception has left run()                       *)
(***************************************************************************)
NewRun ==
    /\ manager = << >>
    /\ call = NoCall
    /\ hist = NoHistory({ })
    /\ NewPopulation
    /\ pc = "seed"
    /\ loop = NoLoop
    /\ sim_time = TickStep
    /\ paused = FALSE
    /\ unregistered = { }
    /\ exported = { }
    /\ placement = NoCall

\* The state in which run() calls seed_initial_population (line 417)
InitRun ==
    /\ NewRun
    /\ mating_increase_rate = MATING_INCREASE_RATE

\* The robots of the live list that have a handle and are not reported dead
Alive == { k \in 1 .. Len(robots) :
             robots[k] \in DOMAIN manager /\ ~ manager[robots[k]].dead }

\* Ids that immigration needs to bring the population back to MIN_POP when
\* only alive robots were left
Deficit(alive) == IF alive < MIN_POP THEN MIN_POP - alive ELSE 0

SimActs == ~ paused /\ pc \in { "sleep", "await_insert" }

\* The simulator's clock advances and every registered handle is updated.
SimTick ==
    /\ SimActs
    /\ sim_time + TickStep <= MaxSimTime
    /\ sim_time' = sim_time + TickStep
    /\ manager' = [ id \in DOMAIN manager |->
                      [ manager[id] EXCEPT !.last_update = sim_time + TickStep,
                                           !.age = @ + TickStep ] ]
    /\ UNCHANGED << call, hist, popvars, pc, loop, paused, unregistered,
                    exported, placement >>

\* The simulator reports a new position of a robot.
SimMove(id) ==
    /\ SimActs
    /\ \E p \in WalkPoints :
         /\ p # manager[id].last_position
         /\ manager' = [ manager EXCEPT ![id].last_position = p ]
    /\ UNCHANGED << call, hist, popvars, runvars, placement >>

\* The simulator reports a robot dead.  (As many may die as MaxId leaves ids
\* to replace.)
SimDie(id) ==
    /\ SimActs
    /\ ~ manager[id].dead
    /\ robot_id_counter + Deficit(Cardinality(Alive) - 1) <= MaxId
    /\ manager' = [ manager EXCEPT ![id].dead = TRUE ]
    /\ UNCHANGED << call, hist, popvars, runvars, placement >>

\* seed_initial_population(pause_while_inserting = True), up to the call of
\* immigration_season (lines 277-280)
SeedInitialPopulation ==
    /\ pc = "seed"
    /\ paused' = TRUE
    /\ sim_time' = 0
    /\ pc' = "immigration"
    /\ loop' = [ NoLoop EXCEPT !.target = SEED_POPULATION_START, !.seeding = TRUE ]
    /\ UNCHANGED << matevars, popvars, unregistered, exported, placement >>

\* Mutant of next_robot_id: the counter is not incremented.
next_robot_id_Stuck(counter) == counter

\* self._robot_id_counter += 1 (lines 307 and 364): the id given next
next_robot_id(counter) == counter + 1

\* Mutant of immigration_continues: the loop stops one robot short.
immigration_continues_OneShort(n, population_minimum) == n + 1 < population_minimum

\* The while test of immigration_season (line 306)
immigration_continues(n, population_minimum) == n < population_minimum

\* The random individual of _generate_insert_random_robot (lines 269-270)
RandomIndividual(id) ==
    OnlineIndividual(<< [ id |-> Some(id), parents |-> None ], INDIVIDUAL_MAX_AGE >>)

\* One turn of the while loop of immigration_season in which a free position
\* is found: the robot is handed to the simulator (lines 306-310, 267-271,
\* 235-237).
ImmigrationPlaced ==
    /\ pc = "immigration"
    /\ immigration_continues(Len(robots), loop.target)
    /\ RandomIndividual(next_robot_id(robot_id_counter)).kind = "individual"
    /\ \E draws \in Draws(N_TRIES) :
         LET r == free_random_spawn_pos(Positions(robots, manager),
                                        DEFAULT_DISTANCE, N_TRIES, draws)
         IN  /\ r.kind = "position"
             /\ loop' = [ loop EXCEPT
                            !.pending = Some([ id |-> next_robot_id(robot_id_counter),
                                               pos |-> r.pos,
                                               from |-> "immigration" ]) ]
    /\ robot_id_counter' = next_robot_id(robot_id_counter)
    /\ pc' = "await_insert"
    /\ UNCHANGED << matevars, robots, mating_multiplier, mating_increase_rate,
                    recent_children, recent_children_start_time, sim_time,
                    paused, unregistered, exported, placement >>

\* Mutant of ImmigrationNoPosition: NoPositionFound is not caught.
ImmigrationNoPosition_Propagates ==
    /\ pc = "immigration"
    /\ immigration_continues(Len(robots), loop.target)
    /\ robot_id_counter + 1 + (loop.target - Len(robots)) <= MaxId
    /\ \E draws \in Draws(N_TRIES) :
         free_random_spawn_pos(Positions(robots, manager),
                               DEFAULT_DISTANCE, N_TRIES, draws).kind
             = "NoPositionFound"
    /\ robot_id_counter' = next_robot_id(robot_id_counter)
    /\ pc' = "crashed"
    /\ UNCHANGED << matevars, robots, mating_multiplier, mating_increase_rate,
                    recent_children, recent_children_start_time, loop, sim_time,
                    paused, unregistered, exported, placement >>

\* One turn of the while loop in which the placer raises NoPositionFound:
\* the id is spent and the loop goes on (lines 313-315).  (As many attempts
\* may fail as MaxId leaves ids to fill the population.)
ImmigrationNoPosition ==
    /\ pc = "immigration"
    /\ immigration_continues(Len(robots), loop.target)
    /\ robot_id_counter + 1 + (loop.target - Len(robots)) <= MaxId
    /\ RandomIndividual(next_robot_id(robot_id_counter)).kind = "individual"
    /\ \E draws \in Draws(N_TRIES) :
         free_random_spawn_pos(Positions(robots, manager),
                               DEFAULT_DISTANCE, N_TRIES, draws).kind
             = "NoPositionFound"
    /\ robot_id_counter' = next_robot_id(robot_id_counter)
    /\ UNCHANGED << matevars, robots, mating_multiplier, mating_increase_rate,
                    recent_children, recent_children_start_time, runvars,
                    placement >>

\* connection.insert_robot returns the handle: _insert_individual exports the
\* individual (lines 237-239); immigration_season then appends it to the live
\* list (line 312), mating_season goes on with the next pair (line 377).
InsertReturn ==
    /\ pc = "await_insert"
    /\ LET new == loop.pending[1]
       IN  /\ manager' = [ id \in DOMAIN manager \cup { new.id } |->
                             IF id = new.id
                             THEN NewManager(new.id, new.pos, sim_time)
                             ELSE manager[id] ]
           /\ exported' = exported \cup { << new.id, FALSE >> }
           /\ IF new.from = "immigration"
              THEN /\ robots' = Append(robots, new.id)
                   /\ pc' = "immigration"
                   /\ loop' = [ loop EXCEPT !.pending = None ]
              ELSE /\ robots' = robots
                   /\ pc' = "mating"
                   /\ loop' = [ loop EXCEPT !.pending = None, !.i2 = @ + 1 ]
    /\ UNCHANGED << call, hist, robot_id_counter, mating_multiplier,
                    mating_increase_rate, recent_children,
                    recent_children_start_time, sim_time, paused, unregistered,
                    placement >>

\* immigration_season returns, to seed_initial_population or to the life
\* loop, where the adjustment follows (line 425).
ImmigrationReturn ==
    /\ pc = "immigration"
    /\ ~ immigration_continues(Len(robots), loop.target)
    /\ pc' = IF loop.seeding THEN "seeded" ELSE "adjust"
    /\ loop' = NoLoop
    /\ UNCHANGED << matevars, popvars, sim_time, paused, unregistered, exported,
                    placement >>

\* The end of seed_initial_population: the simulator is unpaused and the
\* life loop starts (lines 281-282, 421).
SeedingDone ==
    /\ pc = "seeded"
    /\ paused' = FALSE
    /\ pc' = "death"
    /\ UNCHANGED << matevars, popvars, loop, sim_time, unregistered, exported,
                    placement >>

\* death_season (lines 291-300) with _remove_individual (lines 241-246)
DeathSeason ==
    /\ pc = "death"
    /\ LET d == death_loop(robots, manager, 1, << >>)
           gone == { d.removed[k] : k \in 1 .. Len(d.removed) }
       IN  /\ robots' = d.robots
           /\ exported' = exported \cup { << id, manager[id].dead >> : id \in gone }
           /\ unregistered' = unregistered \cup gone
           /\ manager' = [ id \in DOMAIN manager \ gone |-> manager[id] ]
    /\ pc' = "mating_start"
    /\ UNCHANGED << call, hist, robot_id_counter, mating_multiplier,
                    mating_increase_rate, recent_children,
                    recent_children_start_time, loop, sim_time, paused,
                    placement >>

\* mating_season is left, by the end of the outer loop or by BreakIt; the
\* immigration season follows (line 424).
ToImmigration ==
    /\ pc' = "immigration"
    /\ loop' = [ NoLoop EXCEPT !.target = MIN_POP ]

\* The start of mating_season (lines 346-349)
MatingSeasonStart ==
    /\ pc = "mating_start"
    /\ IF Len(robots) > MAX_POP
       THEN ToImmigration
       ELSE pc' = "mating" /\ loop' = [ NoLoop EXCEPT !.i1 = 1, !.start = robots ]
    /\ UNCHANGED << matevars, popvars, sim_time, paused, unregistered,
                    exported, placement >>

\* The outer for loop takes individual1, or ends (lines 349-352); at its
\* head loop.i2 is 0.
MatingOuter ==
    /\ pc = "mating"
    /\ loop.i2 = 0
    /\ IF loop.i1 > Len(robots)
       THEN ToImmigration
       ELSE /\ pc' = pc
            /\ IF ~ individual_mature(manager, robots[loop.i1])
               THEN loop' = [ loop EXCEPT !.i1 = @ + 1 ]
               ELSE loop' = [ loop EXCEPT !.i2 = 1 ]
    /\ UNCHANGED << matevars, popvars, sim_time, paused, unregistered,
                    exported, placement >>

\* What follows a mating that gave individual3 (lines 362-377): it is put in
\* _recent_children and gets the next id; with a free position it is
\* appended to the live list and handed to the simulator, without one it is
\* given up.
Offspring(r, lp) ==
    LET id3 == next_robot_id(robot_id_counter)
    IN  /\ recent_children' = Append(recent_children, id3)
        /\ robot_id_counter' = id3
        /\ manager' = r.manager
        /\ \E draws \in Draws(N_TRIES) :
             LET f == free_random_spawn_pos(Positions(robots, r.manager),
                                            DEFAULT_DISTANCE, N_TRIES, draws)
             IN  IF f.kind = "NoPositionFound"
                 THEN /\ robots' = robots
                      /\ pc' = pc
                      /\ loop' = [ lp EXCEPT !.i2 = @ + 1 ]
                 ELSE /\ robots' = Append(robots, id3)
                      /\ pc' = "await_insert"
                      /\ loop' = [ lp EXCEPT
                                     !.pending = Some([ id |-> id3, pos |-> f.pos,
                                                        from |-> "mating" ]) ]

\* Mutant of same_individual: an individual is never taken for itself.
same_individual_Never(individual1, individual2) == FALSE

\* individual1 is individual2 (line 355)
same_individual(individual1, individual2) == individual1 = individual2

\* One turn of the inner for loop (lines 352-377): individual2 is taken, or
\* the loop ends and the outer loop moves on.
MatingInner ==
    /\ pc = "mating"
    /\ loop.i2 > 0
    /\ IF loop.i2 > Len(robots)
       THEN /\ pc' = pc
            /\ loop' = [ loop EXCEPT !.i1 = @ + 1, !.i2 = 0 ]
            /\ UNCHANGED << matevars, popvars >>
       ELSE IF Len(robots) > MAX_POP
       THEN /\ ToImmigration
            /\ UNCHANGED << matevars, popvars >>
       ELSE IF same_individual(robots[loop.i1], robots[loop.i2])
       THEN /\ pc' = pc
            /\ loop' = [ loop EXCEPT !.i2 = @ + 1 ]
            /\ UNCHANGED << matevars, popvars >>
       ELSE LET s == robots[loop.i1]
                o == robots[loop.i2]
                r == mate(manager, s, o, mating_multiplier)
                lp == [ loop EXCEPT !.attempts = @ + 1 ]
            IN  /\ call' = [ op |-> "mate", self |-> s, other |-> o,
                             mult |-> mating_multiplier, before |-> manager,
                             hist_before |-> hist, result |-> r.result ]
                /\ hist' = hist
                /\ UNCHANGED << mating_multiplier, mating_increase_rate,
                                recent_children_start_time >>
                /\ IF r.result.kind = "None"
                   THEN /\ pc' = pc
                        /\ loop' = [ lp EXCEPT !.i2 = @ + 1 ]
                        /\ manager' = r.manager
                        /\ UNCHANGED << robots, robot_id_counter, recent_children >>
                   ELSE IF r.result.kind = "individual"
                   THEN Offspring(r, lp)
                   ELSE /\ pc' = "crashed"
                        /\ loop' = lp
                        /\ manager' = r.manager
                        /\ UNCHANGED << robots, robot_id_counter, recent_children >>
    /\ UNCHANGED << sim_time, paused, unregistered, exported, placement >>

\* adjust_mating_multiplier(connection.age()) (line 425)
AdjustMatingMultiplier ==
    /\ pc = "adjust"
    /\ LET a == adjust_mating_multiplier(recent_children_start_time,
                                         mating_multiplier, mating_increase_rate,
                                         recent_children, sim_time)
       IN  /\ recent_children_start_time' = a.start
           /\ mating_multiplier' = a.multiplier
           /\ recent_children' = a.children
    /\ pc' = "sleep"
    /\ UNCHANGED << matevars, robots, robot_id_counter, mating_increase_rate,
                    loop, sim_time, paused, unregistered, exported, placement >>

\* Mutant of Wake: the turn starts with the mating season.
Wake_SkipDeath ==
    /\ pc = "sleep"
    /\ pc' = "mating_start"
    /\ UNCHANGED << matevars, popvars, loop, sim_time, paused, unregistered,
                    exported, placement >>

\* asyncio.sleep(0.05) is over: the next turn of the life loop (line 427)
Wake ==
    /\ pc = "sleep"
    /\ pc' = "death"
    /\ UNCHANGED << matevars, popvars, loop, sim_time, paused, unregistered,
                    exported, placement >>

Simulator ==
    \/ SimTick
    \/ \E id \in DOMAIN manager : SimMove(id)
    \/ \E id \in DOMAIN manager : SimDie(id)

Next ==
    \/ Simulator
    \/ SeedInitialPopulation
    \/ ImmigrationPlaced
    \/ ImmigrationNoPosition
    \/ InsertReturn
    \/ ImmigrationReturn
    \/ SeedingDone
    \/ DeathSeason
    \/ MatingSeasonStart
    \/ MatingOuter
    \/ MatingInner
    \/ AdjustMatingMultiplier
    \/ Wake

Spec == InitRun /\ [][Next]_vars

\* run() is one coroutine that the event loop keeps running, and the
\* simulator answers every insertion; the placer, drawing at random, does not
\* fail for ever where a free position exists.
Program ==
    \/ SeedInitialPopulation
    \/ ImmigrationNoPosition
    \/ InsertReturn
    \/ ImmigrationReturn
    \/ SeedingDone
    \/ DeathSeason
    \/ MatingSeasonStart
    \/ MatingOuter
    \/ MatingInner
    \/ AdjustMatingMultiplier
    \/ Wake

SpecLive == Spec /\ WF_vars(Program) /\ SF_vars(ImmigrationPlaced)

(***************************************************************************)
(* The adjustment harness: the life loop with a Population whose           *)
(* _mating_increase_rate the caller has chosen, and whose buffer of recent *)
(* children the caller fills before adjust_mating_multiplier is called.    *)
(***************************************************************************)
InitAdjust ==
    /\ NewRun
    /\ mating_increase_rate \in Rates

\* The caller puts n children in _recent_children.
FillChildren ==
    /\ pc = "adjust"
    /\ recent_children = << >>
    /\ \E n \in 1 .. MaxChildren : recent_children' = [ k \in 1 .. n |-> 0 ]
    /\ UNCHANGED << matevars, robots, robot_id_counter, mating_multiplier,
                    mating_increase_rate, recent_children_start_time, runvars,
                    placement >>

NextAdjust == Next \/ FillChildren

SpecAdjust == InitAdjust /\ [][NextAdjust]_vars

(***************************************************************************)
(* The placer harness: up to MaxPlaced robots at positions the simulator   *)
(* has reported, and callers of _free_random_spawn_pos.                    *)
(***************************************************************************)
InitPlacer ==
    /\ \E n \in 0 .. MaxPlaced :
         /\ robots = [ k \in 1 .. n |-> k ]
         /\ \E at \in [ 1 .. n -> SpawnPoints \cup WalkPoints ] :
              manager = [ k \in 1 .. n |-> NewManager(k, at[k], 0) ]
    /\ call = NoCall
    /\ hist = NoHistory({ })
    /\ robot_id_counter = Len(robots)
    /\ mating_multiplier = << 1, 1 >>
    /\ mating_increase_rate = MATING_INCREASE_RATE
    /\ recent_children = << >>
    /\ recent_children_start_time = NOT_STARTED
    /\ NoRun
    /\ placement = NoCall

\* A caller runs _free_random_spawn_pos(distance, n_tries); draws is what
\* random_spawn_pos gives, call after call.
PlacerCall ==
    \E n_tries \in 1 .. MaxTries : \E draws \in Draws(n_tries) :
        /\ placement' =
               [ op |-> "free_random_spawn_pos",
                 positions |-> Positions(robots, manager),
                 distance |-> DEFAULT_DISTANCE, n_tries |-> n_tries,
                 draws |-> draws,
                 result |-> free_random_spawn_pos(Positions(robots, manager),
                                DEFAULT_DISTANCE, n_tries, draws) ]
        /\ UNCHANGED << matevars, popvars, runvars >>

\* The simulator reports a new position of a robot.
PlacerMove(id) ==
    /\ \E p \in SpawnPoints \cup WalkPoints :
         /\ p # manager[id].last_position
         /\ manager' = [ manager EXCEPT ![id].last_position = p ]
    /\ placement' = NoCall
    /\ UNCHANGED << call, hist, popvars, runvars >>

NextPlacer ==
    \/ PlacerCall
    \/ \E id \in DOMAIN manager : PlacerMove(id)

SpecPlacer == InitPlacer /\ [][NextPlacer]_vars

(***************************************************************************)
(* Claims on mate (checked under SpecMate)                                 *)
(***************************************************************************)
IsMate == call.op = "mate"

\* Both directions of the gate, in the state in which mate was called.
MutualGate ==
    /\ wants_to_mate(call.before[call.self], call.before[call.other], call.mult)
    /\ wants_to_mate(call.before[call.other], call.before[call.self], call.mult)

\* C1: mate(A, B) gives an offspring if and only if wantsToMate(A, B) and
\* wantsToMate(B, A) both hold in the state in which mate is called.
C1_SymmetryLaw ==
    IsMate => ( call.result.kind = "individual" <=> MutualGate )

\* C2: mate never ends in an error: it gives None when the mutual gate is not
\* satisfied and otherwise a new individual wrapping the child genotype, with
\* no id and no simulator handle.
C2_MateNeverThrows ==
    IsMate =>
        IF MutualGate
        THEN /\ call.result.kind = "individual"
             /\ call.result.genotype.id = None
             /\ call.result.manager = None
        ELSE call.result.kind = "None"

\* The gates of self other than the cooldown, in the state of the call.
OtherGatesOpen(self, other, mult) ==
    /\ mature(self)
    /\ ~ DistanceExceeds(self.last_position, other.last_position, MATE_DISTANCE, mult)
    /\ DictGet(self.mated_with, other.name, 0) <= COUPLE_MATING_LIMIT

\* A's time at the call is before the end of the cooldown of its last mating
\* with B.
InCooldown ==
    LET prev == call.hist_before.success[<< call.self, call.other >>]
    IN  /\ prev # None
        /\ call.before[call.self].last_update < prev[1] + MATING_COOLDOWN

\* C3: after a mating of A with B at A's time t, every call mate(A, B) made
\* while A's time is less than t + MATING_COOLDOWN gives None, whatever the
\* distance, the maturity and the mate counts are.
C3_CooldownGate ==
    ( IsMate /\ InCooldown ) => call.result.kind = "None"

\* C3 witness: a call refused in the cooldown although every other gate of A
\* and every gate of B is open.
C3_Witness ==
    /\ IsMate
    /\ InCooldown
    /\ OtherGatesOpen(call.before[call.self], call.before[call.other], call.mult)
    /\ wants_to_mate(call.before[call.other], call.before[call.self], call.mult)
    /\ call.result.kind = "None"

\* The count one of the two has recorded for the other has been above the
\* limit before the call.
QuotaExceeded ==
    \/ << call.self, call.other >> \in call.hist_before.exceeded
    \/ << call.other, call.self >> \in call.hist_before.exceeded

\* C4: once the count A has recorded for B has exceeded COUPLE_MATING_LIMIT,
\* every later call mate(A, B) and mate(B, A) gives None, whatever the
\* distance and the cooldown are.
C4_QuotaGate ==
    ( IsMate /\ QuotaExceeded ) => call.result.kind = "None"

\* The gates of self other than the quota, in the state of the call.
NonQuotaGatesOpen(self, other, mult) ==
    /\ mature(self)
    /\ ~ DistanceExceeds(self.last_position, other.last_position, MATE_DISTANCE, mult)
    /\ ( self.last_mate = None
         \/ self.last_update - self.last_mate[1] >= MATING_COOLDOWN )

\* C4 witness: B calls mate(B, A) after A's count for B has exceeded the
\* limit; the distance, the maturity and the cooldown of both would allow the
\* mating, B's own count for A is within the limit, and the call gives None.
C4_Witness ==
    /\ IsMate
    /\ << call.other, call.self >> \in call.hist_before.exceeded
    /\ << call.self, call.other >> \notin call.hist_before.exceeded
    /\ NonQuotaGatesOpen(call.before[call.self], call.before[call.other], call.mult)
    /\ NonQuotaGatesOpen(call.before[call.other], call.before[call.self], call.mult)
    /\ call.result.kind = "None"

(***************************************************************************)
(* Claims on the seasons (checked under Spec and SpecLive)                 *)
(***************************************************************************)

\* C5: when the death phase returns, no robot whose handle reports dead is
\* left in the live list: every robot that was dead at the start of the
\* phase has been removed, unregistered and exported, adjacent or not.
C5_DeathPhaseComplete ==
    pc = "mating_start" =>
        \A k \in 1 .. Len(robots) : ~ manager[robots[k]].dead

\* immigration_season is running (at its while test or awaiting an insertion)
InImmigration ==
    \/ pc = "immigration"
    \/ pc = "await_insert" /\ loop.pending[1].from = "immigration"

\* C9: immigration_season(m) returns (given that the placer does not fail for
\* ever), and whenever it returns the live count is at least m; so the live
\* count is at least SEED_POPULATION_START after the seeding and at least
\* MIN_POP at the end of every turn of the life loop.
C9_ImmigrationReturns ==
    /\ [][ ImmigrationReturn => Len(robots) >= loop.target ]_vars
    /\ []( pc = "seeded" => Len(robots) >= SEED_POPULATION_START )
    /\ []( pc \in { "adjust", "sleep" } => Len(robots) >= MIN_POP )
    /\ ( InImmigration ~> ~ InImmigration )

\* C9 witness: the seeding has returned with its target reached although the
\* placer raised NoPositionFound on the way.
C9_Witness ==
    /\ pc = "seeded"
    /\ Len(robots) >= SEED_POPULATION_START
    /\ robot_id_counter > Len(robots)

(***************************************************************************)
(* Claims on the controller and the placer                                 *)
(***************************************************************************)

\* The window has started and is over at the simulator's time.
WindowOver ==
    /\ recent_children_start_time >= 0
    /\ sim_time - recent_children_start_time > RECENT_CHILDREN_DELTA_TIME

\* C8: a call of adjust with the window over, n being the size of
\* recentChildren, multiplies the multiplier by the rate if n < 3, divides it
\* by the rate if n > 10 and leaves it as it is if 3 <= n <= 10; no other
\* operation changes the multiplier.
C8_AdjustBranchRule ==
    [][ LET n == Len(recent_children)
            adjusts == pc = "adjust" /\ pc' = "sleep"
        IN  /\ ( adjusts /\ WindowOver /\ n < 3 )
                  => mating_multiplier' = RatMul(mating_multiplier, mating_increase_rate)
            /\ ( adjusts /\ WindowOver /\ n > 10 )
                  => mating_multiplier' = RatDiv(mating_multiplier, mating_increase_rate)
            /\ ( adjusts /\ WindowOver /\ n >= 3 /\ n <= 10 )
                  => mating_multiplier' = mating_multiplier
            /\ ( ~ adjusts ) => mating_multiplier' = mating_multiplier
      ]_vars

\* C8 witness: adjust has divided the multiplier by a rate other than 1.
C8_Witness ==
    /\ pc = "sleep"
    /\ mating_increase_rate # << 1, 1 >>
    /\ mating_multiplier = RatDiv(<< 1, 1 >>, mating_increase_rate)

IsPlacement == placement.op = "free_random_spawn_pos"

\* The k-th candidate is closer than the distance to some robot.
CandidateOccupied(k) ==
    is_pos_occupied(placement.positions, placement.draws[k], placement.distance)

\* C10: for maxTries >= 1, when every candidate is occupied the placer draws
\* and tests exactly maxTries candidates and then raises NoPositionFound;
\* when one of the first maxTries candidates is free it does not raise.
C10_PlacerRetryBound ==
    IsPlacement =>
        IF \A k \in 1 .. placement.n_tries : CandidateOccupied(k)
        THEN /\ placement.result.kind = "NoPositionFound"
             /\ placement.result.drawn = placement.n_tries
             /\ placement.result.tested = placement.n_tries
        ELSE placement.result.kind = "position"

\* C10 witness: NoPositionFound after MaxTries candidates, all occupied and
\* not all the same.
C10_Witness ==
    /\ IsPlacement
    /\ placement.n_tries = MaxTries
    /\ placement.result.kind = "NoPositionFound"
    /\ placement.result.drawn = MaxTries
    /\ \E j, k \in 1 .. MaxTries : placement.draws[j] # placement.draws[k]

\* The position is inside the rectangle of random_spawn_pos, at spawn height.
InSpawnArea(pos) ==
    /\ pos[1] >= - LIMIT_X /\ pos[1] <= LIMIT_X
    /\ pos[2] >= - LIMIT_Y /\ pos[2] <= LIMIT_Y
    /\ pos[3] = Z_SPAWN_DISTANCE

\* C11: a call of the placer either raises NoPositionFound or returns a
\* position inside the rectangular bound at the spawn height whose planar
\* distance to the last known position of every robot of the live list at
\* the time of the call is at least the distance asked for.
C11_PlacerResultValid ==
    IsPlacement =>
        \/ placement.result.kind = "NoPositionFound"
        \/ /\ placement.result.kind = "position"
           /\ InSpawnArea(placement.result.pos)
           /\ \A k \in 1 .. Len(placement.positions) :
                 DistanceSq(placement.positions[k], placement.result.pos, TRUE)
                     >= placement.distance * placement.distance

\* C11 witness: a position returned after a candidate was rejected, with two
\* robots in the live list, one of them exactly at the distance asked for.
C11_Witness ==
    /\ IsPlacement
    /\ placement.result.kind = "position"
    /\ placement.result.drawn >= 2
    /\ Len(placement.positions) = 2
    /\ \E k \in 1 .. 2 :
          DistanceSq(placement.positions[k], placement.result.pos, TRUE)
              = placement.distance * placement.distance

(***************************************************************************)
(* Claims on the ids and on the order of the seasons (checked under Spec)  *)
(***************************************************************************)

\* The ids that have been given to an individual and are still known
\* somewhere: in the live list, at the simulator, in an insertion under way,
\* in the records written or in the buffer of recent children.
KnownIds ==
    { robots[k] : k \in 1 .. Len(robots) }
        \cup DOMAIN manager
        \cup { loop.pending[k].id : k \in 1 .. Len(loop.pending) }
        \cup { e[1] : e \in exported }
        \cup unregistered
        \cup { recent_children[k] : k \in 1 .. Len(recent_children) }

\* C12: the ids given are pairwise distinct, every id newly given is greater
\* than every id given before it, and the ids along the live list increase
\* strictly in list order; also when a placement fails and its id is lost.
C12_IdInvariant ==
    /\ []( \A id \in KnownIds : id >= 1 /\ id <= robot_id_counter )
    /\ []( \A j, k \in 1 .. Len(robots) : j < k => robots[j] < robots[k] )
    /\ [][ /\ robot_id_counter' >= robot_id_counter
           /\ \A id \in KnownIds' \ KnownIds :
                 /\ id > robot_id_counter
                 /\ id = robot_id_counter'
         ]_vars

\* C12 witness: two robots in the live list whose ids are not consecutive:
\* the id between them went to an attempt whose placement failed.
C12_Witness ==
    \E k \in 1 .. Len(robots) - 1 :
        /\ robots[k + 1] > robots[k] + 1
        /\ ~ ( \E e \in exported : e[1] = robots[k] + 1 )

\* mating_season is running (in its loops or awaiting an insertion)
InMating ==
    \/ pc = "mating"
    \/ pc = "await_insert" /\ loop.pending[1].from = "mating"

\* C13: the seeding runs once, before the first turn of the life loop; in
\* every turn the death season is over before the mating season starts, the
\* mating season is over before the immigration season starts, and the
\* adjustment comes after the immigration season and before the sleep, so
\* that it reads _recent_children as the mating season of that turn left it.
C13_TickOrdering ==
    [][ /\ ( pc' = "seed" => pc = "seed" )
        /\ ( loop'.seeding /\ ~ loop.seeding => pc = "seed" )
        /\ ( pc' = "seeded" /\ pc # "seeded" => InImmigration /\ loop.seeding )
        /\ ( pc' = "death" /\ pc # "death" => pc \in { "seeded", "sleep" } )
        /\ ( pc' = "mating_start" /\ pc # "mating_start" => pc = "death" )
        /\ ( InMating' /\ ~ InMating => pc = "mating_start" )
        /\ ( InImmigration' /\ ~ InImmigration =>
                 IF loop'.seeding THEN pc = "seed"
                 ELSE pc = "mating_start" \/ InMating )
        /\ ( pc' = "adjust" /\ pc # "adjust" => InImmigration /\ ~ loop.seeding )
        /\ ( pc' = "sleep" /\ pc # "sleep" => pc = "adjust" )
        /\ ( ~ InMating /\ pc # "adjust" => recent_children' = recent_children )
      ]_vars

\* C13 witness: the adjustment of a turn other than the first is about to
\* run; a mating season has called mate and got None, and the immigration
\* season of this turn has inserted a robot.
C13_Witness ==
    /\ pc = "adjust"
    /\ recent_children_start_time >= 0
    /\ call.op = "mate" /\ call.result.kind = "None"
    /\ \E k \in 1 .. Len(robots) : manager[robots[k]].last_update = sim_time
                                     /\ manager[robots[k]].age = 0
                                     /\ sim_time > 0

\* A step in which an id is spent and no insertion is started: the placer
\* has raised NoPositionFound.
NoPositionStep ==
    /\ robot_id_counter' # robot_id_counter
    /\ pc' # "await_insert"

\* C14: a NoPositionFound of the placer does not leave the season it is
\* raised in: the live list is as before the attempt and the season goes on,
\* the immigration season at its while test, the mating season with the
\* next individual2 of the same individual1.
C14_NoPositionRecoverable ==
    [][ NoPositionStep =>
          /\ pc' = pc
          /\ pc \in { "immigration", "mating" }
          /\ robots' = robots
          /\ manager' = manager \/ pc = "mating"
          /\ pc = "immigration" => loop' = loop
          /\ pc = "mating" => loop' = [ loop EXCEPT !.i2 = @ + 1 ]
      ]_vars

\* C14 witness: the seeding is at its while test again after an attempt whose
\* placement failed: the last id is with no robot, and the population is
\* still short of the target.
C14_Witness ==
    /\ pc = "immigration"
    /\ robot_id_counter >= 2
    /\ robot_id_counter \notin KnownIds
    /\ Len(robots) >= 1
    /\ immigration_continues(Len(robots), loop.target)

(***************************************************************************)
(* Claims on the scan of the mating season (checked under Spec)            *)
(***************************************************************************)

\* The individuals of the live list at the start of the mating season
AtStart == { loop.start[k] : k \in 1 .. Len(loop.start) }

\* A step of the mating season that calls mate.
MateStep == pc = "mating" /\ loop'.attempts = loop.attempts + 1

C16_FailedMateChangesNothing ==
    [][ ( call'.op = "mate" /\ call'.result.kind = "None" ) =>
          /\ manager' = manager
          /\ call'.before = manager
          /\ robots' = robots
          /\ robot_id_counter' = robot_id_counter
          /\ recent_children' = recent_children
      ]_vars

\* C16 witness: a call that gave None because other did not want the mating
\* although self, which has mated before, did; the handles are as before.
C16_Witness ==
    /\ IsMate
    /\ call.result.kind = "None"
    /\ wants_to_mate(call.before[call.self], call.before[call.other], call.mult)
    /\ ~ wants_to_mate(call.before[call.other], call.before[call.self], call.mult)
    /\ call.before[call.self].last_mate # None
    /\ manager = call.before

\* A step in which mate is called and saves the mating.
MatingStep == call'.op = "mate" /\ call'.result.kind # "None"

\* C17: a mating of A with B sets A's last_mate to A's time and adds 1 to the
\* count A has recorded for B (1 when there was none); the other entries of
\* A's mated_with, the rest of A's handle and the handle of every other
\* individual, B's last_mate and B's count for A among them, are unchanged.
C17_OneSidedBookkeeping ==
    [][ MatingStep =>
          LET A == call'.self
              B == call'.other
          IN  /\ manager'[A].last_mate = Some(manager[A].last_update)
              /\ DOMAIN manager'[A].mated_with = DOMAIN manager[A].mated_with \cup { B }
              /\ manager'[A].mated_with[B] = DictGet(manager[A].mated_with, B, 0) + 1
              /\ \A k \in DOMAIN manager[A].mated_with \ { B } :
                    manager'[A].mated_with[k] = manager[A].mated_with[k]
              /\ manager' = [ manager EXCEPT
                                ![A].last_mate = manager'[A].last_mate,
                                ![A].mated_with = manager'[A].mated_with ]
      ]_vars

\* C17 witness: A has mated with B when A had a count for a third individual
\* and B had mated with A before.
C17_Witness ==
    /\ IsMate
    /\ call.result.kind # "None"
    /\ \E X \in DOMAIN manager \ { call.self, call.other } :
          /\ X \in DOMAIN call.before[call.self].mated_with
          /\ manager[call.self].mated_with[X] = call.before[call.self].mated_with[X]
    /\ call.self \in DOMAIN call.before[call.other].mated_with
    /\ call.before[call.other].last_mate # None
    /\ manager[call.other] = call.before[call.other]

(***************************************************************************)
(* Claims on the window of the adjustment (checked under SpecAdjust)       *)
(***************************************************************************)

\* A step that is a call of adjust_mating_multiplier.
AdjustStep == pc = "adjust" /\ pc' = "sleep"

\* C18: the first call of adjust only records the time as the start of the
\* window; a later call made no more than RECENT_CHILDREN_DELTA_TIME after
\* the start changes nothing; a later call made more than that after the
\* start ends with the time as the new start and the buffer empty, whatever
\* the number of children is.
C18_AdjustWindow ==
    [][ AdjustStep =>
          IF recent_children_start_time < 0
          THEN /\ recent_children_start_time' = sim_time
               /\ mating_multiplier' = mating_multiplier
               /\ recent_children' = recent_children
          ELSE IF sim_time - recent_children_start_time <= RECENT_CHILDREN_DELTA_TIME
          THEN /\ recent_children_start_time' = recent_children_start_time
               /\ mating_multiplier' = mating_multiplier
               /\ recent_children' = recent_children
          ELSE /\ recent_children_start_time' = sim_time
               /\ recent_children' = << >>
      ]_vars

\* C18 witness: a call made inside the window has left the children in the
\* buffer and the start of the window where they were.
C18_Witness ==
    /\ pc = "sleep"
    /\ recent_children # << >>
    /\ recent_children_start_time >= 0
    /\ recent_children_start_time < sim_time
    /\ sim_time - recent_children_start_time <= RECENT_CHILDREN_DELTA_TIME

(***************************************************************************)
(* Claims on the matings over time (checked under SpecTrio and SpecMate)   *)
(***************************************************************************)

\* At the call, a's time is before the end of the cooldown of a mating that
\* a has initiated with x.
CoolingDown(a, x) ==
    LET prev == call.hist_before.success[<< a, x >>]
    IN  /\ prev # None
        /\ call.before[a].last_update < prev[1] + MATING_COOLDOWN

\* C19: after A has initiated a mating at its time t, every call of mate in
\* which A is self or other, whoever the second individual is, gives None
\* while A's time is less than t + MATING_COOLDOWN.
C19_InitiatorCooldownBothRoles ==
    IsMate =>
        \A a \in { call.self, call.other } :
            ( \E x \in DOMAIN manager \ { a } : CoolingDown(a, x) )
                => call.result.kind = "None"

\* C19 witness: X calls mate(X, A) while A is in the cooldown of a mating it
\* initiated with a third individual; X wants the mating, A has never mated
\* with X and only A's cooldown is against it; the call gives None.
C19_Witness ==
    /\ IsMate
    /\ call.result.kind = "None"
    /\ \E b \in DOMAIN manager \ { call.self, call.other } :
          /\ CoolingDown(call.other, b)
          /\ ~ CoolingDown(call.other, call.self)
    /\ wants_to_mate(call.before[call.self], call.before[call.other], call.mult)
    /\ OtherGatesOpen(call.before[call.other], call.before[call.self], call.mult)

\* C20: over a run, the matings A has initiated with B are at most
\* COUPLE_MATING_LIMIT + 1, and the count A has recorded for B is never
\* above COUPLE_MATING_LIMIT + 1.
C20_PerPairBound ==
    \A pr \in Pairs(DOMAIN manager) :
        /\ hist.count[pr] <= COUPLE_MATING_LIMIT + 1
        /\ DictGet(manager[pr[1]].mated_with, manager[pr[2]].name, 0)
               <= COUPLE_MATING_LIMIT + 1

\* C20 witness: A has initiated COUPLE_MATING_LIMIT + 1 matings with B, and
\* one more call of mate(A, B), with only A's quota against it, gives None.
C20_Witness ==
    /\ IsMate
    /\ hist.count[<< call.self, call.other >>] = COUPLE_MATING_LIMIT + 1
    /\ call.hist_before.count[<< call.self, call.other >>] = COUPLE_MATING_LIMIT + 1
    /\ NonQuotaGatesOpen(call.before[call.self], call.before[call.other], call.mult)
    /\ wants_to_mate(call.before[call.other], call.before[call.self], call.mult)
    /\ call.result.kind = "None"

====
